---------------------------- MODULE Spec2Model ----------------------------
(***************************************************************************)
(* HardwareSphere API: the Express routes of hardwaresphere-api (projects, *)
(* users), the auth and cache middleware, the Redis client wrapper and the *)
(* project service, as a state machine over the Firestore documents, the   *)
(* storage bucket, the Redis keys and the requests in flight.              *)
(***************************************************************************)
EXTENDS Naturals, Integers, Sequences, FiniteSets, TLC

VARIABLES
  projects,     \* Firestore collection 'projects': id -> document
  users,        \* Firestore collection 'users': uid -> document
  storage,      \* objects of the storage bucket, as <<userId, projectId, name>>
  redis,        \* the Redis server's keys: key -> cached JSON body
  isConnected,  \* RedisClient.isConnected
  reqs,         \* the HTTP requests in flight or answered: slot -> request
  acked,        \* history: per project, the last mutation answered with success
  jobs,         \* background conversions scheduled with setTimeout: slot -> job
  disk          \* the temporary files in the uploads directory

vars == <<projects, users, storage, redis, isConnected, reqs, acked, jobs, disk>>

----------------------------------------------------------------------------
(* Bounds of the model *)

MaxHeaderLen == 3     \* chunks of an Authorization header
MaxReqs == 2          \* request slots handled concurrently
MaxVersion == 2       \* updates a project document receives
MaxPinReqs == 2       \* concurrent toggle-pin requests
NumPinProjects == 5   \* projects of the pinning user
MaxJobs == 2          \* background conversions alive at once
MaxTempFiles == 3     \* uploads whose temporary files are in use at once

(* Program constants *)
MaxPinned == 4        \* routes/users.js: pinSnapshot.size >= 4

Users == {"u1", "u2"}
NoUser == "none"

----------------------------------------------------------------------------
(* Authorization headers.  A header is the concatenation of its chunks;    *)
(* the empty sequence is a missing (or empty) header.                      *)

Bearer == "Bearer "
ValidTokens == {"tok_u1", "tok_u2"}
Chunks == {Bearer, "tok_u1", "tok_u2", "expired", "junk"}

SeqsUpTo(S, n) == UNION {[1..k -> S] : k \in 0..n}
Headers == SeqsUpTo(Chunks, MaxHeaderLen)

Min(S) == CHOOSE x \in S : \A y \in S : x <= y

\* authHeader.startsWith('Bearer ')
startsWithBearer(h) == Len(h) > 0 /\ h[1] = Bearer

\* authHeader.split('Bearer ')[1]: the text between the first and the second
\* occurrence of the separator; undefined (here empty, no token either) when
\* the separator does not occur
splitBearer1(h) ==
  LET seps == {i \in 1..Len(h) : h[i] = Bearer}
      first == Min(seps)
      later == {i \in seps : i > first}
      last == IF later = {} THEN Len(h) ELSE Min(later) - 1
  IN IF seps = {} THEN <<>> ELSE SubSeq(h, first + 1, last)

\* auth.verifyIdToken(token): the decoded uid, or the error it throws
verifyIdToken(token) ==
  IF Len(token) = 1 /\ token[1] \in ValidTokens
    THEN [ok |-> TRUE, uid |-> IF token[1] = "tok_u1" THEN "u1" ELSE "u2", code |-> ""]
    ELSE IF token = <<"expired">>
      THEN [ok |-> FALSE, uid |-> NoUser, code |-> "auth/id-token-expired"]
      ELSE [ok |-> FALSE, uid |-> NoUser, code |-> "auth/argument-error"]

\* What a middleware did with a request: the next() calls, the responses it
\* sent itself, the status and error of that response, and req.user.
MwResult(n, s, st, e, u) ==
  [nexts |-> n, sent |-> s, status |-> st, error |-> e, user |-> u]

verifyFirebaseToken_NoPrefixCheck(h) ==
  LET d == verifyIdToken(splitBearer1(h))
  IN IF d.ok THEN MwResult(1, 0, 0, "", d.uid)
     ELSE IF d.code = "auth/id-token-expired"
       THEN MwResult(0, 1, 401, "Token has expired.", NoUser)
       ELSE MwResult(0, 1, 401, "Invalid token", NoUser)

verifyFirebaseToken(h) ==
  IF ~startsWithBearer(h)
    THEN MwResult(0, 1, 401, "No token provided or invalid format", NoUser)
    ELSE LET d == verifyIdToken(splitBearer1(h))
         IN IF d.ok THEN MwResult(1, 0, 0, "", d.uid)
            ELSE IF d.code = "auth/id-token-expired"
              THEN MwResult(0, 1, 401, "Token has expired.", NoUser)
              ELSE MwResult(0, 1, 401, "Invalid token", NoUser)

optionalVerifyFirebaseToken_NextInCatch(h) ==
  IF startsWithBearer(h)
    THEN LET d == verifyIdToken(splitBearer1(h))
         IN IF d.ok THEN MwResult(1, 0, 0, "", d.uid)
            ELSE MwResult(2, 0, 0, "", NoUser)
    ELSE MwResult(1, 0, 0, "", NoUser)

optionalVerifyFirebaseToken(h) ==
  IF startsWithBearer(h)
    THEN LET d == verifyIdToken(splitBearer1(h))
         IN MwResult(1, 0, 0, "", IF d.ok THEN d.uid ELSE NoUser)
    ELSE MwResult(1, 0, 0, "", NoUser)


----------------------------------------------------------------------------
(* Documents, storage objects, cached bodies *)

PNames == <<"p1", "p2", "p3", "p4", "p5", "p6", "p7", "p8">>

NoConv == [inProgress |-> FALSE, completed |-> FALSE]
Converting == [inProgress |-> TRUE, completed |-> FALSE]
Converted == [inProgress |-> FALSE, completed |-> TRUE]

\* A document of the 'projects' collection (the fields the routes read)
Doc(u, vis, pinned, ver, created, stl, glb, conv) ==
  [exists |-> TRUE, userId |-> u, visibility |-> vis, isPinned |-> pinned,
   version |-> ver, createdAt |-> created, stl |-> stl, glb |-> glb, conv |-> conv,
   views |-> 0]

NoDoc ==
  [exists |-> FALSE, userId |-> NoUser, visibility |-> "none", isPinned |-> FALSE,
   version |-> 0, createdAt |-> 0, stl |-> "", glb |-> "", conv |-> NoConv,
   views |-> 0]

\* firestore.collection('projects').doc(id).get()
getDoc(id) == IF id \in DOMAIN projects THEN projects[id] ELSE NoDoc

Null == [kind |-> "none"]

ErrorBody(e, m) == [kind |-> "error", error |-> e, message |-> m]

\* { id: doc.id, ...doc.data() }
ProjectBody(id, d) ==
  [kind |-> "project", id |-> id, userId |-> d.userId, visibility |-> d.visibility,
   isPinned |-> d.isPinned, version |-> d.version, createdAt |-> d.createdAt,
   conv |-> d.conv, views |-> d.views]

NoResp == [status |-> 0, body |-> Null, src |-> "none"]
Resp(st, b, src) == [status |-> st, body |-> b, src |-> src]

NoBody == [isPublic |-> FALSE, newModel |-> "", filesToDelete |-> {}]
NoAck == [version |-> 0, deleted |-> FALSE, created |-> FALSE, views |-> 0]

RedisError == "redis command failed"

----------------------------------------------------------------------------
(* config/redis.js: RedisClient.  `ok` is whether the command reaches the  *)
(* server and is answered; the value cached is the JSON body alone.        *)

ProjectKey(id) == <<"project", id>>
UserProjectsKey(uid) == <<"user", uid, "projects">>
ProfileKey(username) == <<"user", username, "profile">>

\* JSON.parse(JSON.stringify(body)): the status of the response is not part of it
stored(key) == IF key \in DOMAIN redis THEN redis[key] ELSE Null

RedisGet(key, ok) ==
  IF ~isConnected THEN [threw |-> FALSE, value |-> Null]
  ELSE IF ~ok THEN [threw |-> FALSE, value |-> Null]
  ELSE [threw |-> FALSE, value |-> stored(key)]

\* the keys of the server after set(key, value, ttl)
withKey(r, key, value) ==
  [k \in DOMAIN r \cup {key} |-> IF k = key THEN value ELSE r[k]]
withoutKey(r, key) == [k \in DOMAIN r \ {key} |-> r[k]]

RedisSet(r, key, value, ok) ==
  IF ~isConnected THEN [threw |-> FALSE, value |-> FALSE, redis |-> r]
  ELSE IF ~ok THEN [threw |-> FALSE, value |-> FALSE, redis |-> r]
  ELSE [threw |-> FALSE, value |-> TRUE, redis |-> withKey(r, key, value)]

RedisDel_NoCatch(r, key, ok) ==
  IF ~isConnected THEN [threw |-> FALSE, value |-> FALSE, redis |-> r]
  ELSE IF ~ok THEN [threw |-> TRUE, value |-> FALSE, redis |-> r]
  ELSE [threw |-> FALSE, value |-> TRUE, redis |-> withoutKey(r, key)]

RedisDel(r, key, ok) ==
  IF ~isConnected THEN [threw |-> FALSE, value |-> FALSE, redis |-> r]
  ELSE IF ~ok THEN [threw |-> FALSE, value |-> FALSE, redis |-> r]
  ELSE [threw |-> FALSE, value |-> TRUE, redis |-> withoutKey(r, key)]

\* every key of `keys` deleted, in any order (the deletes commute)
RECURSIVE RedisDelAll(_, _, _)
RedisDelAll(r, keys, ok) ==
  IF keys = {} THEN [threw |-> FALSE, redis |-> r]
  ELSE LET k == CHOOSE x \in keys : TRUE
           d == RedisDel(r, k, ok)
           rest == RedisDelAll(d.redis, keys \ {k}, ok)
       IN [threw |-> d.threw \/ rest.threw, redis |-> rest.redis]

\* services/project-service.js invalidateUserCaches(userId, projectId): a
\* rejected delete is caught per key, and the whole helper catches too
invalidateUserCaches(r, userId, projectId, ok) ==
  LET username == IF userId \in DOMAIN users THEN users[userId].username ELSE ""
      keys == {UserProjectsKey(userId), ProjectKey(projectId)}
              \cup (IF username # "" THEN {ProfileKey(username)} ELSE {})
  IN RedisDelAll(r, keys, ok).redis

----------------------------------------------------------------------------
(* Requests *)

IdleReq ==
  [kind |-> "idle", pc |-> "idle", header |-> <<>>, user |-> NoUser, id |-> "",
   route |-> "", body |-> NoBody, doc |-> NoDoc, list |-> <<>>, key |-> <<>>,
   resp |-> NoResp, nexts |-> 0, mwSent |-> 0, sent |-> 0, redisDown |-> FALSE,
   since |-> NoAck, wrote |-> 0, temp |-> {}, username |-> <<>>,
   oldUsername |-> <<>>]

\* a new request takes the first slot whose request has been answered and
\* has cleaned up its temporary files
IsFree(q) == q.pc \in {"idle", "done"} /\ q.temp = {}
Free(r) == IsFree(reqs[r]) /\ \A o \in DOMAIN reqs : o < r => ~IsFree(reqs[o])

\* the headers a browser of the site sends: none, or a signed-in user's token
ClientHeaders ==
  {<<>>, <<Bearer, "tok_u1">>, <<Bearer, "tok_u2">>}

\* what the request has become once the response `resp` has been sent
\* (the handler's locals are gone with it)
Answered(q, resp) ==
  [q EXCEPT !.pc = "done", !.resp = resp, !.sent = q.sent + 1, !.body = NoBody,
            !.doc = NoDoc, !.list = <<>>, !.key = <<>>, !.wrote = 0,
            !.username = <<>>, !.oldUsername = <<>>]

----------------------------------------------------------------------------
(* middleware/upload: multer.diskStorage, trackTempFiles, addToTempTracker, *)
(* cleanupRequestTempFiles                                                  *)

\* a file of the uploads directory: what it holds and the upload it is of
\* (multer's unique name; convertStlFile's converted-{projectId}-{time} name)
TempFile(kind, n) == <<kind, n>>

\* the uploads some file, request or conversion still refers to
UploadsInUse ==
  {f[2] : f \in disk}
  \cup {f[2] : f \in UNION {reqs[r].temp : r \in DOMAIN reqs}}
  \cup {jobs[j].path[2] : j \in {x \in DOMAIN jobs : jobs[x].pc # "idle"}}

FreeUploads == (1..MaxTempFiles) \ UploadsInUse

\* req.files: the fields of the form that carry a file
uploadedFiles(body, fields) ==
  LET n == CHOOSE x \in FreeUploads : \A y \in FreeUploads : x <= y
  IN IF body.newModel = "" THEN {} ELSE {TempFile(k, n) : k \in fields}

\* files.modelFile[0] (or the .stl among projectFiles): the model's file
ModelOf(q) == CHOOSE f \in q.temp : f[1] = "model"

\* trackTempFiles: res.end schedules cleanupRequestTempFiles(req) with
\* setImmediate; a file that is gone already (ENOENT) counts as cleaned
cleanupRequestTempFiles_KeepsModel(q) == {f \in q.temp : f[1] # "model"}

cleanupRequestTempFiles(q) == q.temp

CleanupRequestTempFiles(r) ==
  /\ reqs[r].pc = "done" /\ reqs[r].temp # {}
  /\ disk' = disk \ cleanupRequestTempFiles(reqs[r])
  /\ reqs' = [reqs EXCEPT ![r].temp = {}]
  /\ UNCHANGED <<projects, users, storage, redis, isConnected, acked, jobs>>

\* middleware/cache.js cache(keyGenerator, ttl) for a miss or a hit: what
\* the middleware does with the value RedisClient.get returned
cache(q, key, got) ==
  IF got.threw
    THEN [q EXCEPT !.nexts = q.nexts + 1, !.pc = "handler"]
    ELSE IF got.value # Null
      THEN [Answered(q, Resp(200, got.value, "cache")) EXCEPT !.mwSent = q.mwSent + 1]
      ELSE [q EXCEPT !.key = key, !.nexts = q.nexts + 1, !.pc = "handler"]

\* res.json(data) of a handler: through the wrapper cache() installed when
\* there is one, which issues redisClient.set and then sends the response
resJson(q, status, body, ok) ==
  [req |-> Answered(q, Resp(status, body, "handler")),
   redis |-> IF q.key # <<>> THEN RedisSet(redis, q.key, body, ok).redis ELSE redis]

----------------------------------------------------------------------------
(* routes/projects.js: the GET routes of /api/projects, in the order the   *)
(* router registers them                                                   *)

GetRoutes == <<"/:id", "/me">>

matches(route, path) == route = "/:id" \/ (route = "/me" /\ path = "me")

\* Express hands the request to the first registered route that matches
Route(path) ==
  GetRoutes[Min({i \in 1..Len(GetRoutes) : matches(GetRoutes[i], path)})]

\* the documents of `ids` as bodies, newest first
RECURSIVE NewestFirst(_)
NewestFirst(ids) ==
  IF ids = {} THEN <<>>
  ELSE LET top == CHOOSE p \in ids :
                    \A o \in ids : projects[o].createdAt <= projects[p].createdAt
       IN <<ProjectBody(top, projects[top])>> \o NewestFirst(ids \ {top})

\* ProjectService.getUserProjects(userId)
getUserProjects(uid) ==
  NewestFirst({p \in DOMAIN projects : projects[p].exists /\ projects[p].userId = uid})

ListBody(l) == [kind |-> "list", items |-> l]

\* GET /api/projects/<path>: the auth middleware of the matched route, then
\* its cache middleware
GetProjectStart(r, h, path, ok) ==
  /\ Free(r)
  /\ LET route == Route(path)
         auth == IF route = "/:id" THEN optionalVerifyFirebaseToken(h)
                 ELSE verifyFirebaseToken(h)
         q == [IdleReq EXCEPT !.kind = "getProject", !.id = path,
                 !.route = route, !.user = auth.user,
                 !.since = IF path \in DOMAIN acked THEN acked[path] ELSE NoAck,
                 !.redisDown = ~isConnected \/ ~ok]
         key == IF route = "/:id" THEN ProjectKey(path) ELSE UserProjectsKey(auth.user)
     IN reqs' = [reqs EXCEPT ![r] =
          IF auth.sent = 1
            THEN Answered(q, Resp(auth.status, ErrorBody(auth.error, ""), "auth"))
            ELSE cache(q, key, RedisGet(key, ok))]
  /\ UNCHANGED <<disk, projects, users, storage, redis, isConnected, acked, jobs>>

\* the handler's read: projectService.getProject(id), or getUserProjects(uid)
GetProjectRead(r) ==
  /\ reqs[r].kind = "getProject" /\ reqs[r].pc = "handler"
  /\ reqs' = [reqs EXCEPT ![r] =
       IF reqs[r].route = "/:id"
         THEN [reqs[r] EXCEPT !.doc = getDoc(reqs[r].id), !.pc = "respond"]
         ELSE [reqs[r] EXCEPT !.list = getUserProjects(reqs[r].user), !.pc = "respond"]]
  /\ UNCHANGED <<disk, projects, users, storage, redis, isConnected, acked, jobs>>

\* the permission check of GET /:id (routes/projects.js:127-131)
mayView(doc, user) ==
  ~(doc.visibility = "private" /\ (user = NoUser \/ user # doc.userId))

\* the handler's answer, once the signed URLs have been generated
GetProjectRespond(r, ok) ==
  /\ reqs[r].kind = "getProject" /\ reqs[r].pc = "respond"
  /\ LET q == reqs[r]
         out == IF q.route = "/me" THEN resJson(q, 200, ListBody(q.list), ok)
                ELSE IF ~q.doc.exists
                  THEN resJson(q, 404, ErrorBody("Project not found", ""), ok)
                ELSE IF ~mayView(q.doc, q.user)
                  THEN resJson(q, 404, ErrorBody(
                         "Project not found or you do not have permission to view it.", ""), ok)
                ELSE resJson(q, 200, ProjectBody(q.id, q.doc), ok)
     IN /\ reqs' = [reqs EXCEPT ![r] = out.req]
        /\ redis' = out.redis
  /\ UNCHANGED <<disk, projects, users, storage, isConnected, acked, jobs>>

----------------------------------------------------------------------------
(* Background conversions (the jobs createProject and updateProject start) *)

IdleJob ==
  [pc |-> "idle", kind |-> "", id |-> "", userId |-> NoUser, stl |-> "", path |-> <<>>,
   ok |-> FALSE]

\* requests in flight that will start a conversion when they finish
Starting == {r \in DOMAIN reqs : reqs[r].pc # "done" /\ reqs[r].body.newModel # ""}
Busy == {j \in DOMAIN jobs : jobs[j].pc # "idle"}

\* setTimeout(() => this.startBackgroundConversion...(...), 100)
schedule(js, kind, id, uid, stl, path) ==
  LET j == CHOOSE x \in DOMAIN js : js[x].pc = "idle"
  IN [js EXCEPT ![j] = [pc |-> "scheduled", kind |-> kind, id |-> id, userId |-> uid,
                        stl |-> stl, path |-> path, ok |-> FALSE]]

----------------------------------------------------------------------------
(* PUT /api/projects/:id and ProjectService.updateProject *)

Obj(uid, id, name) == <<uid, id, name>>
GlbName(stl) == IF stl = "a.stl" THEN "a.glb" ELSE IF stl = "b.stl" THEN "b.glb" ELSE ""

Max(a, b) == IF a >= b THEN a ELSE b

\* the PUT requests for project `id` that have not written yet
PendingPuts(id) ==
  {r \in DOMAIN reqs : reqs[r].kind = "putProject" /\ reqs[r].id = id
                        /\ reqs[r].pc \in {"upd_check", "upd_write"}}

PutProjectStart(r, h, id, body) ==
  /\ Free(r)
  /\ getDoc(id).version + Cardinality(PendingPuts(id)) < MaxVersion
  /\ body.newModel # "" => Cardinality(Busy) + Cardinality(Starting) < Cardinality(DOMAIN jobs)
  /\ body.newModel # "" => FreeUploads # {}
  /\ LET auth == verifyFirebaseToken(h)
         q == [IdleReq EXCEPT !.kind = "putProject", !.id = id,
                 !.user = auth.user, !.body = body]
         files == uploadedFiles(body, {"model"})
     IN IF auth.sent = 1
          THEN /\ reqs' = [reqs EXCEPT ![r] =
                    Answered(q, Resp(auth.status, ErrorBody(auth.error, ""), "auth"))]
               /\ disk' = disk
          ELSE /\ reqs' = [reqs EXCEPT ![r] =
                    [q EXCEPT !.nexts = 1, !.pc = "upd_check", !.temp = files]]
               /\ disk' = disk \cup files
  /\ UNCHANGED <<projects, users, storage, redis, isConnected, acked, jobs>>

\* the owner check of updateProject, deleteProject and toggle-pin
isOwner_ExistsOnly(doc, uid) == doc.exists

isOwner(doc, uid) == doc.exists /\ doc.userId = uid

\* firestore.runTransaction: a toggle-pin transaction that has read the
\* document `id` runs again when the document is written before it commits
retryTxns(rs, id) ==
  [o \in DOMAIN rs |->
     IF rs[o].kind = "togglePin" /\ rs[o].pc = "pin_commit" /\ rs[o].id = id
       THEN [rs[o] EXCEPT !.pc = "pin_read", !.doc = NoDoc]
       ELSE rs[o]]

\* updateProject: projectRef.get() and the owner check
UpdCheck(r) ==
  /\ reqs[r].kind = "putProject" /\ reqs[r].pc = "upd_check"
  /\ LET q == [reqs[r] EXCEPT !.doc = getDoc(reqs[r].id)]
     IN reqs' = [reqs EXCEPT ![r] =
          IF ~isOwner(q.doc, q.user)
            THEN Answered(q,
                   Resp(500, ErrorBody("Failed to update project",
                     "Project not found or you do not have permission to edit it."), "handler"))
            ELSE [q EXCEPT !.pc = "upd_write"]]
  /\ UNCHANGED <<disk, projects, users, storage, redis, isConnected, acked, jobs>>

\* updateProject: the uploads, the deletes of pathsToDelete, projectRef.update
UpdWrite(r) ==
  /\ reqs[r].kind = "putProject" /\ reqs[r].pc = "upd_write"
  /\ LET q == reqs[r]
         old == q.doc
         new == q.body.newModel
         uploaded == IF new # "" THEN {Obj(q.user, q.id, new)} ELSE {}
         pathsToDelete ==
           q.body.filesToDelete
           \cup (IF new # "" /\ old.stl # "" THEN {Obj(q.user, q.id, old.stl)} ELSE {})
           \cup (IF new # "" /\ old.glb # "" THEN {Obj(q.user, q.id, old.glb)} ELSE {})
         cur == getDoc(q.id)
         upd == [cur EXCEPT
                   !.visibility = IF q.body.isPublic THEN "public" ELSE "private",
                   !.version = cur.version + 1,
                   !.stl = IF new # "" THEN new ELSE cur.stl,
                   !.glb = IF new # "" THEN "" ELSE cur.glb,
                   !.conv = IF new # "" THEN Converting ELSE cur.conv]
     IN /\ storage' = (storage \cup uploaded) \ pathsToDelete
        /\ IF cur.exists
             THEN /\ projects' = [projects EXCEPT ![q.id] = upd]
                  /\ reqs' = retryTxns([reqs EXCEPT ![r] =
                       [q EXCEPT !.pc = "upd_finish", !.wrote = upd.version]], q.id)
             ELSE /\ projects' = projects
                  /\ reqs' = [reqs EXCEPT ![r] =
                       Answered(q,
                         Resp(500, ErrorBody("Failed to update project", "NOT_FOUND"),
                              "handler"))]
  /\ UNCHANGED <<disk, users, redis, isConnected, acked, jobs>>

\* updateProject: invalidateUserCaches, the conversion's timer, the re-read;
\* then the route's two deletes and its answer
UpdFinish(r, ok) ==
  /\ reqs[r].kind = "putProject" /\ reqs[r].pc = "upd_finish"
  /\ LET q == reqs[r]
         r1 == invalidateUserCaches(redis, q.user, q.id, ok)
         d1 == RedisDel(r1, ProjectKey(q.id), ok)
         d2 == RedisDel(d1.redis, UserProjectsKey(q.user), ok)
         cur == getDoc(q.id)
     IN /\ redis' = d2.redis
        /\ jobs' = IF q.body.newModel # ""
                     THEN schedule(jobs, "update", q.id, q.user, q.body.newModel, ModelOf(q))
                     ELSE jobs
        /\ IF d1.threw \/ d2.threw
             THEN /\ reqs' = [reqs EXCEPT ![r] = Answered(q,
                       Resp(500, ErrorBody("Failed to update project", RedisError), "handler"))]
                  /\ acked' = acked
             ELSE /\ reqs' = [reqs EXCEPT ![r] = Answered(q,
                       Resp(200, IF cur.exists THEN ProjectBody(q.id, cur)
                                 ELSE [kind |-> "idOnly", id |-> q.id], "handler"))]
                  /\ acked' = [acked EXCEPT ![q.id].version = Max(@, q.wrote)]
  /\ UNCHANGED <<disk, projects, users, storage, isConnected>>

----------------------------------------------------------------------------
(* DELETE /api/projects/:id and ProjectService.deleteProject *)

DeleteProjectStart(r, h, id) ==
  /\ Free(r)
  /\ LET auth == verifyFirebaseToken(h)
         q == [IdleReq EXCEPT !.kind = "deleteProject", !.id = id,
                 !.user = auth.user]
     IN reqs' = [reqs EXCEPT ![r] =
          IF auth.sent = 1
            THEN Answered(q, Resp(auth.status, ErrorBody(auth.error, ""), "auth"))
            ELSE [q EXCEPT !.nexts = 1, !.pc = "del_check"]]
  /\ UNCHANGED <<disk, projects, users, storage, redis, isConnected, acked, jobs>>

\* deleteProject: projectRef.get() and the two checks; error.code is not set,
\* so the route answers 500
DelCheck(r) ==
  /\ reqs[r].kind = "deleteProject" /\ reqs[r].pc = "del_check"
  /\ LET q == [reqs[r] EXCEPT !.doc = getDoc(reqs[r].id)]
     IN reqs' = [reqs EXCEPT ![r] =
          IF ~q.doc.exists
            THEN Answered(q, Resp(500, ErrorBody("Project not found.", ""), "handler"))
          ELSE IF ~isOwner(q.doc, q.user)
            THEN Answered(q, Resp(500, ErrorBody(
                   "You do not have permission to delete this project.", ""), "handler"))
          ELSE [q EXCEPT !.pc = "del_write"]]
  /\ UNCHANGED <<disk, projects, users, storage, redis, isConnected, acked, jobs>>

\* deleteProject: bucket.deleteFiles({prefix}) and projectRef.delete()
DelWrite(r) ==
  /\ reqs[r].kind = "deleteProject" /\ reqs[r].pc = "del_write"
  /\ LET q == reqs[r]
     IN /\ storage' = {o \in storage : ~(o[1] = q.user /\ o[2] = q.id)}
        /\ projects' = [projects EXCEPT ![q.id] = NoDoc]
        /\ reqs' = retryTxns([reqs EXCEPT ![r] = [q EXCEPT !.pc = "del_finish"]], q.id)
  /\ UNCHANGED <<disk, users, redis, isConnected, acked, jobs>>

\* deleteProject: invalidateUserCaches; then the route's deletes and answer
DelFinish(r, ok) ==
  /\ reqs[r].kind = "deleteProject" /\ reqs[r].pc = "del_finish"
  /\ LET q == reqs[r]
         r1 == invalidateUserCaches(redis, q.user, q.id, ok)
         d1 == RedisDel(r1, ProjectKey(q.id), ok)
         d2 == RedisDel(d1.redis, UserProjectsKey(q.user), ok)
     IN /\ redis' = d2.redis
        /\ IF d1.threw \/ d2.threw
             THEN /\ reqs' = [reqs EXCEPT ![r] =
                       Answered(q, Resp(500, ErrorBody(RedisError, ""), "handler"))]
                  /\ acked' = acked
             ELSE /\ reqs' = [reqs EXCEPT ![r] =
                       Answered(q, Resp(200, [kind |-> "ok"], "handler"))]
                  /\ acked' = [acked EXCEPT ![q.id].deleted = TRUE]
  /\ UNCHANGED <<disk, projects, users, storage, isConnected, jobs>>

----------------------------------------------------------------------------
(* The Redis connection and the entries' time to live *)

\* client.on('error'): isConnected = false
RedisDown ==
  /\ isConnected
  /\ isConnected' = FALSE
  /\ UNCHANGED <<disk, projects, users, storage, redis, reqs, acked, jobs>>

\* client.on('connect'): isConnected = true
RedisUp ==
  /\ ~isConnected
  /\ isConnected' = TRUE
  /\ UNCHANGED <<disk, projects, users, storage, redis, reqs, acked, jobs>>

\* setEx(key, ttlSeconds, ...): the entry expires
Expire(key) ==
  /\ key \in DOMAIN redis
  /\ redis' = withoutKey(redis, key)
  /\ UNCHANGED <<disk, projects, users, storage, isConnected, reqs, acked, jobs>>

----------------------------------------------------------------------------
(* routes/users.js: GET /api/users/:username *)

\* firestore.collection('users').where('username', '==', username).limit(1)
userByName(username) ==
  LET found == {u \in DOMAIN users : users[u].username = username}
  IN IF found = {} THEN NoUser ELSE CHOOSE u \in found : TRUE

\* the projects query: every project of the profile's user for its owner,
\* the public ones for anybody else, newest first
profileProjects(uid, isOwnerReq) ==
  NewestFirst({p \in DOMAIN projects :
                 /\ projects[p].exists /\ projects[p].userId = uid
                 /\ (isOwnerReq \/ projects[p].visibility = "public")})

ProfileBody(uid, username, l) ==
  [kind |-> "profile", id |-> uid, username |-> username,
   pinnedProjects |-> SelectSeq(l, LAMBDA b : b.isPinned),
   otherProjects |-> SelectSeq(l, LAMBDA b : ~b.isPinned)]

\* optionalVerifyFirebaseToken, then cacheUserProfile
GetProfileStart(r, h, username, ok) ==
  /\ Free(r)
  /\ LET auth == optionalVerifyFirebaseToken(h)
         q == [IdleReq EXCEPT !.kind = "getProfile", !.id = username,
                 !.user = auth.user, !.redisDown = ~isConnected \/ ~ok]
         key == ProfileKey(username)
     IN reqs' = [reqs EXCEPT ![r] = cache(q, key, RedisGet(key, ok))]
  /\ UNCHANGED <<disk, projects, users, storage, redis, isConnected, acked, jobs>>

\* the user query and the projects query; 404 when no user has the name
GetProfileRead(r, ok) ==
  /\ reqs[r].kind = "getProfile" /\ reqs[r].pc = "handler"
  /\ LET q == reqs[r]
         uid == userByName(q.id)
         out == resJson(q, 404, ErrorBody("User not found", ""), ok)
     IN IF uid = NoUser
          THEN /\ reqs' = [reqs EXCEPT ![r] = out.req]
               /\ redis' = out.redis
          ELSE /\ reqs' = [reqs EXCEPT ![r] =
                    [q EXCEPT !.list = profileProjects(uid, q.user # NoUser /\ q.user = uid),
                              !.doc = [NoDoc EXCEPT !.userId = uid],
                              !.pc = "respond"]]
               /\ redis' = redis
  /\ UNCHANGED <<disk, projects, users, storage, isConnected, acked, jobs>>

\* res.json(publicProfile), once the thumbnails' signed URLs are generated
GetProfileRespond(r, ok) ==
  /\ reqs[r].kind = "getProfile" /\ reqs[r].pc = "respond"
  /\ LET q == reqs[r]
         out == resJson(q, 200, ProfileBody(q.doc.userId, q.id, q.list), ok)
     IN /\ reqs' = [reqs EXCEPT ![r] = out.req]
        /\ redis' = out.redis
  /\ UNCHANGED <<disk, projects, users, storage, isConnected, acked, jobs>>

----------------------------------------------------------------------------
(* Spec: the GET routes behind the cache.  u1 (alice) owns p1; u2 and the  *)
(* signed-out visitor are the other requesters.                            *)

InitUsers == [u \in Users |-> [username |-> IF u = "u1" THEN "alice" ELSE "bob"]]

CacheProjects == {"p1"}
Paths == CacheProjects \cup {"me"}
Usernames == {"alice", "carol"}
Visibilities == {"public", "private"}
Bodies == {[isPublic |-> b, newModel |-> "", filesToDelete |-> {}] : b \in BOOLEAN}

\* the server once started: the projects uploaded so far, an empty cache
InitWith(V, P, C) ==
  /\ projects \in {[p \in CacheProjects |->
        Doc("u1", v, pin, 0, 1, "a.stl", "a.glb", Converted)]
        : v \in V, pin \in P}
  /\ users = InitUsers
  /\ storage = {Obj("u1", p, n) : p \in CacheProjects, n \in {"a.stl", "a.glb"}}
  /\ redis = <<>>
  /\ isConnected \in C
  /\ reqs = [r \in 1..MaxReqs |-> IdleReq]
  /\ acked = [p \in CacheProjects |-> NoAck]
  /\ jobs = [j \in 1..MaxJobs |-> IdleJob]
  /\ disk = {}

Init == InitWith(Visibilities, {FALSE}, BOOLEAN)

RedisEvents ==
  \/ RedisDown
  \/ RedisUp
  \/ \E k \in DOMAIN redis : Expire(k)

Next ==
  \/ \E r \in 1..MaxReqs, h \in ClientHeaders, p \in Paths, ok \in BOOLEAN :
       GetProjectStart(r, h, p, ok)
  \/ \E r \in 1..MaxReqs : GetProjectRead(r)
  \/ \E r \in 1..MaxReqs, ok \in BOOLEAN : GetProjectRespond(r, ok)
  \/ RedisEvents

Spec == Init /\ [][Next]_vars

----------------------------------------------------------------------------
(* SpecProfile: GET /api/users/:username behind the cache *)

InitProfile == InitWith(Visibilities, BOOLEAN, BOOLEAN)

NextProfile ==
  \/ \E r \in 1..MaxReqs, h \in ClientHeaders, n \in Usernames, ok \in BOOLEAN :
       GetProfileStart(r, h, n, ok)
  \/ \E r \in 1..MaxReqs, ok \in BOOLEAN : GetProfileRead(r, ok)
  \/ \E r \in 1..MaxReqs, ok \in BOOLEAN : GetProfileRespond(r, ok)
  \/ RedisEvents

SpecProfile == InitProfile /\ [][NextProfile]_vars

----------------------------------------------------------------------------
(* SpecMutate: GET /:id racing the owner's PUT and DELETE of the project,  *)
(* with Redis connected and answering every command                        *)

OwnerHeaders == {<<Bearer, "tok_u1">>}

NextMutate ==
  \/ \E r \in 1..MaxReqs, h \in {<<>>} \cup OwnerHeaders, p \in CacheProjects, ok \in {TRUE} :
       GetProjectStart(r, h, p, ok)
  \/ \E r \in 1..MaxReqs : GetProjectRead(r)
  \/ \E r \in 1..MaxReqs, ok \in {TRUE} : GetProjectRespond(r, ok)
  \/ \E r \in 1..MaxReqs, h \in OwnerHeaders, p \in CacheProjects, b \in Bodies :
       PutProjectStart(r, h, p, b)
  \/ \E r \in 1..MaxReqs : UpdCheck(r)
  \/ \E r \in 1..MaxReqs : UpdWrite(r)
  \/ \E r \in 1..MaxReqs, ok \in {TRUE} : UpdFinish(r, ok)
  \/ \E r \in 1..MaxReqs, h \in OwnerHeaders, p \in CacheProjects :
       DeleteProjectStart(r, h, p)
  \/ \E r \in 1..MaxReqs : DelCheck(r)
  \/ \E r \in 1..MaxReqs : DelWrite(r)
  \/ \E r \in 1..MaxReqs, ok \in {TRUE} : DelFinish(r, ok)
  \/ \E k \in DOMAIN redis : Expire(k)

InitMutate == InitWith({"private"}, {FALSE}, {TRUE})

SpecMutate == InitMutate /\ [][NextMutate]_vars

----------------------------------------------------------------------------
(* SpecRedis: every cached route and every invalidating route, one request *)
(* at a time, with Redis connected, disconnected or failing                *)

RedisHeaders == {<<>>} \cup OwnerHeaders

NextRedis ==
  \/ \E h \in RedisHeaders, p \in Paths, ok \in BOOLEAN : GetProjectStart(1, h, p, ok)
  \/ GetProjectRead(1)
  \/ \E ok \in BOOLEAN : GetProjectRespond(1, ok)
  \/ \E h \in RedisHeaders, n \in {"alice"}, ok \in BOOLEAN : GetProfileStart(1, h, n, ok)
  \/ \E ok \in BOOLEAN : GetProfileRead(1, ok)
  \/ \E ok \in BOOLEAN : GetProfileRespond(1, ok)
  \/ \E h \in RedisHeaders, p \in CacheProjects, b \in {[NoBody EXCEPT !.isPublic = TRUE]} : PutProjectStart(1, h, p, b)
  \/ UpdCheck(1)
  \/ UpdWrite(1)
  \/ \E ok \in BOOLEAN : UpdFinish(1, ok)
  \/ \E h \in RedisHeaders, p \in CacheProjects : DeleteProjectStart(1, h, p)
  \/ DelCheck(1)
  \/ DelWrite(1)
  \/ \E ok \in BOOLEAN : DelFinish(1, ok)
  \/ RedisEvents

SpecRedis == Init /\ [][NextRedis]_vars

----------------------------------------------------------------------------
(* SpecAuth: the two auth middlewares on every header of the bound *)

\* a request through verifyFirebaseToken alone
VerifyOnly(r, h) ==
  /\ LET a == verifyFirebaseToken(h)
         q == [IdleReq EXCEPT !.kind = "verify", !.header = h, !.user = a.user,
                 !.nexts = a.nexts]
     IN reqs' = [reqs EXCEPT ![r] =
          IF a.sent > 0 THEN Answered(q, Resp(a.status, ErrorBody(a.error, ""), "auth"))
          ELSE [q EXCEPT !.pc = "handler"]]
  /\ UNCHANGED <<disk, projects, users, storage, redis, isConnected, acked, jobs>>

\* a request through optionalVerifyFirebaseToken alone
OptionalOnly(r, h) ==
  /\ LET a == optionalVerifyFirebaseToken(h)
         q == [IdleReq EXCEPT !.kind = "optional", !.header = h, !.user = a.user,
                 !.nexts = a.nexts]
     IN reqs' = [reqs EXCEPT ![r] =
          IF a.sent > 0 THEN Answered(q, Resp(a.status, ErrorBody(a.error, ""), "auth"))
          ELSE [q EXCEPT !.pc = "handler"]]
  /\ UNCHANGED <<disk, projects, users, storage, redis, isConnected, acked, jobs>>

NextAuth ==
  \/ \E h \in Headers : VerifyOnly(1, h)
  \/ \E h \in Headers : OptionalOnly(1, h)

SpecAuth == InitMutate /\ [][NextAuth]_vars

----------------------------------------------------------------------------
(* routes/users.js: POST /api/users/projects/:projectId/toggle-pin *)

PinnedOf(uid) ==
  {p \in DOMAIN projects : projects[p].exists /\ projects[p].userId = uid
                            /\ projects[p].isPinned}

\* pinSnapshot.size >= 4
pinLimitReached(size) == size >= MaxPinned

\* verifyFirebaseToken, then the read of the user's document (its username)
TogglePinStart(r, h, id) ==
  /\ Free(r)
  /\ LET auth == verifyFirebaseToken(h)
         q == [IdleReq EXCEPT !.kind = "togglePin", !.id = id, !.user = auth.user]
     IN reqs' = [reqs EXCEPT ![r] =
          IF auth.sent = 1
            THEN Answered(q, Resp(auth.status, ErrorBody(auth.error, ""), "auth"))
            ELSE [q EXCEPT !.nexts = 1, !.pc = "pin_read",
                           !.key = ProfileKey(users[auth.user].username)]]
  /\ UNCHANGED <<disk, projects, users, storage, redis, isConnected, acked, jobs>>

\* the transaction's reads: the project, and for a pin the user's pinned
\* projects; an error thrown by the update function ends the transaction
TxnRead(r) ==
  /\ reqs[r].kind = "togglePin" /\ reqs[r].pc = "pin_read"
  /\ LET q == [reqs[r] EXCEPT !.doc = getDoc(reqs[r].id)]
     IN reqs' = [reqs EXCEPT ![r] =
          IF ~isOwner(q.doc, q.user)
            THEN Answered(q, Resp(500, ErrorBody(
                   "Project not found or you do not have permission to pin it.", ""), "handler"))
          ELSE IF ~q.doc.isPinned /\ pinLimitReached(Cardinality(PinnedOf(q.user)))
            THEN Answered(q, Resp(500, ErrorBody(
                   "You can only pin a maximum of 4 projects.", ""), "handler"))
          ELSE [q EXCEPT !.pc = "pin_commit"]]
  /\ UNCHANGED <<disk, projects, users, storage, redis, isConnected, acked, jobs>>

\* firestore.runTransaction: a transaction that has read what a commit
\* writes (the document itself, or through its pinned-projects query, which
\* every change of isPinned of the user's projects changes) runs again
conflicts_NoIsolation(o, w) == FALSE

conflicts(o, w) ==
  /\ o.kind = "togglePin" /\ o.pc = "pin_commit"
  /\ (o.id = w.id \/ (~o.doc.isPinned /\ o.doc.userId = w.doc.userId))

\* transaction.update(projectRef, { isPinned: !currentlyPinned }) and commit
TxnCommit(r) ==
  /\ reqs[r].kind = "togglePin" /\ reqs[r].pc = "pin_commit"
  /\ LET q == reqs[r]
     IN /\ projects' = [projects EXCEPT ![q.id].isPinned = ~q.doc.isPinned]
        /\ reqs' = [o \in DOMAIN reqs |->
             IF o = r THEN [q EXCEPT !.pc = "pin_finish"]
             ELSE IF conflicts(reqs[o], q)
               THEN [reqs[o] EXCEPT !.pc = "pin_read", !.doc = NoDoc]
               ELSE reqs[o]]
  /\ UNCHANGED <<disk, users, storage, redis, isConnected, acked, jobs>>

\* the two cache deletes and the answer
TogglePinFinish(r, ok) ==
  /\ reqs[r].kind = "togglePin" /\ reqs[r].pc = "pin_finish"
  /\ LET q == reqs[r]
         d1 == RedisDel(redis, q.key, ok)
         d2 == RedisDel(d1.redis, UserProjectsKey(q.user), ok)
     IN /\ redis' = d2.redis
        /\ reqs' = [reqs EXCEPT ![r] =
             IF d1.threw \/ d2.threw
               THEN Answered(q, Resp(500, ErrorBody(RedisError, ""), "handler"))
               ELSE Answered(q, Resp(200, [kind |-> "ok"], "handler"))]
  /\ UNCHANGED <<disk, projects, users, storage, isConnected, acked, jobs>>

----------------------------------------------------------------------------
(* SpecPin: u1's toggle-pin requests, concurrently, on u1's projects *)

PinProjects == {PNames[i] : i \in 1..NumPinProjects}

InitPin ==
  /\ projects = [p \in PinProjects |->
        Doc("u1", "public", FALSE, 0, 1, "a.stl", "a.glb", Converted)]
  /\ users = InitUsers
  /\ storage = {Obj("u1", p, n) : p \in PinProjects, n \in {"a.stl", "a.glb"}}
  /\ redis = <<>>
  /\ isConnected = TRUE
  /\ reqs = [r \in 1..MaxPinReqs |-> IdleReq]
  /\ acked = [p \in PinProjects |-> NoAck]
  /\ jobs = [j \in 1..MaxJobs |-> IdleJob]
  /\ disk = {}

NextPin ==
  \/ \E r \in 1..MaxPinReqs, p \in PinProjects : TogglePinStart(r, <<Bearer, "tok_u1">>, p)
  \/ \E r \in 1..MaxPinReqs : TxnRead(r)
  \/ \E r \in 1..MaxPinReqs : TxnCommit(r)
  \/ \E r \in 1..MaxPinReqs : TogglePinFinish(r, TRUE)

SpecPin == InitPin /\ [][NextPin]_vars

----------------------------------------------------------------------------
(* SpecOwner: the owner u1 and the stranger u2 update, delete and pin p1  *)
(* and a project that does not exist                                      *)

CallerHeaders == {<<Bearer, "tok_u1">>, <<Bearer, "tok_u2">>}
TargetIds == CacheProjects \cup {"p9"}
OwnerBodies ==
  {[isPublic |-> TRUE, newModel |-> m, filesToDelete |-> f] :
     m \in {"", "b.stl"}, f \in {{}, {Obj("u1", "p1", "a.stl")}}}

NextOwner ==
  \/ \E r \in 1..MaxReqs, h \in CallerHeaders, p \in TargetIds, b \in OwnerBodies :
       PutProjectStart(r, h, p, b)
  \/ \E r \in 1..MaxReqs : UpdCheck(r)
  \/ \E r \in 1..MaxReqs : UpdWrite(r)
  \/ \E r \in 1..MaxReqs : UpdFinish(r, TRUE)
  \/ \E r \in 1..MaxReqs, h \in CallerHeaders, p \in TargetIds : DeleteProjectStart(r, h, p)
  \/ \E r \in 1..MaxReqs : DelCheck(r)
  \/ \E r \in 1..MaxReqs : DelWrite(r)
  \/ \E r \in 1..MaxReqs : DelFinish(r, TRUE)
  \/ \E r \in 1..MaxReqs, h \in CallerHeaders, p \in TargetIds : TogglePinStart(r, h, p)
  \/ \E r \in 1..MaxReqs : TxnRead(r)
  \/ \E r \in 1..MaxReqs : TxnCommit(r)
  \/ \E r \in 1..MaxReqs : TogglePinFinish(r, TRUE)
  \/ \E r \in 1..MaxReqs : CleanupRequestTempFiles(r)

SpecOwner == InitWith({"public"}, {FALSE}, {TRUE}) /\ [][NextOwner]_vars

----------------------------------------------------------------------------
(* POST /api/projects and ProjectService.createProject *)

\* generateProjectId(): an id no document has had
FreshIds == {p \in DOMAIN projects : ~acked[p].created}

\* the requests that have not taken their id yet
PendingCreates == {r \in DOMAIN reqs : reqs[r].pc = "crt_write"}

CreateProjectStart(r, h, isPublic) ==
  /\ Free(r)
  /\ Cardinality(PendingCreates) < Cardinality(FreshIds)
  /\ Cardinality(Busy) + Cardinality(Starting) < Cardinality(DOMAIN jobs)
  /\ FreeUploads # {}
  /\ LET auth == verifyFirebaseToken(h)
         q == [IdleReq EXCEPT !.kind = "createProject", !.user = auth.user,
                 !.body = [NoBody EXCEPT !.isPublic = isPublic, !.newModel = "a.stl"]]
         files == uploadedFiles(q.body, {"model", "banner"})
     IN IF auth.sent = 1
          THEN /\ reqs' = [reqs EXCEPT ![r] =
                    Answered(q, Resp(auth.status, ErrorBody(auth.error, ""), "auth"))]
               /\ disk' = disk
          ELSE /\ reqs' = [reqs EXCEPT ![r] =
                    [q EXCEPT !.nexts = 1, !.pc = "crt_write", !.temp = files]]
               /\ disk' = disk \cup files
  /\ UNCHANGED <<projects, users, storage, redis, isConnected, acked, jobs>>

\* createProject: the upload of the model and projectRef.set(newProject)
CreateProjectWrite(r) ==
  /\ reqs[r].kind = "createProject" /\ reqs[r].pc = "crt_write"
  /\ FreshIds # {}
  /\ LET q == reqs[r]
         id == CHOOSE p \in FreshIds : TRUE
         created == Cardinality({p \in DOMAIN acked : acked[p].created})
         newProject == Doc(q.user, IF q.body.isPublic THEN "public" ELSE "private",
                           FALSE, 0, created + 1, q.body.newModel, "", Converting)
     IN /\ storage' = storage \cup {Obj(q.user, id, q.body.newModel)}
        /\ projects' = [projects EXCEPT ![id] = newProject]
        /\ acked' = [acked EXCEPT ![id].created = TRUE]
        /\ reqs' = [reqs EXCEPT ![r] = [q EXCEPT !.pc = "crt_finish", !.id = id]]
  /\ UNCHANGED <<disk, users, redis, isConnected, jobs>>

\* createProject: invalidateUserCaches and the conversion's timer; then the
\* route's delete and its answer
CreateProjectFinish(r, ok) ==
  /\ reqs[r].kind = "createProject" /\ reqs[r].pc = "crt_finish"
  /\ LET q == reqs[r]
         r1 == invalidateUserCaches(redis, q.user, q.id, ok)
         d1 == RedisDel(r1, UserProjectsKey(q.user), ok)
         cur == getDoc(q.id)
     IN /\ redis' = d1.redis
        /\ jobs' = schedule(jobs, "create", q.id, q.user, q.body.newModel, ModelOf(q))
        /\ reqs' = [reqs EXCEPT ![r] =
             IF d1.threw
               THEN Answered(q, Resp(500, ErrorBody("Failed to create project", RedisError),
                                     "handler"))
               ELSE Answered(q, Resp(201, [kind |-> "idOnly", id |-> q.id], "handler"))]
  /\ UNCHANGED <<disk, projects, users, storage, isConnected, acked>>

----------------------------------------------------------------------------
(* startBackgroundConversion and startBackgroundConversionForUpdate *)

\* the conversionStatus the conversion leaves: the finally block of the
\* first, the transaction or the catch block of the second
statusAfter_FailureStaysInProgress(ok) == IF ok THEN Converted ELSE Converting

statusAfter(ok) == Converted

\* glbTempPath: the converted file of the upload the model's file is of
GlbTemp(path) == TempFile("converted", path[2])

\* convertStlFile: convertStlToGltf reads the model's temporary file and
\* writes the GLB next to it, or fails (the file is gone, or does not parse)
JobConvert(j, ok) ==
  /\ jobs[j].pc = "scheduled"
  /\ LET written == ok /\ jobs[j].path \in disk
     IN /\ disk' = IF written THEN disk \cup {GlbTemp(jobs[j].path)} ELSE disk
        /\ jobs' = [jobs EXCEPT ![j].pc = IF written THEN "written" ELSE "converted",
                                ![j].ok = FALSE]
  /\ UNCHANGED <<projects, users, storage, redis, isConnected, reqs, acked>>

\* convertStlFile: the upload of the GLB to the bucket, and the cleanup of
\* the converted file after the upload or after its failure
JobUpload(j, ok) ==
  /\ jobs[j].pc = "written"
  /\ storage' = IF ok THEN storage \cup {Obj(jobs[j].userId, jobs[j].id, GlbName(jobs[j].stl))}
                ELSE storage
  /\ disk' = disk \ {GlbTemp(jobs[j].path)}
  /\ jobs' = [jobs EXCEPT ![j].pc = "converted", ![j].ok = ok]
  /\ UNCHANGED <<projects, users, redis, isConnected, reqs, acked>>

\* what follows the conversion.  For a new project: addConvertedFile (or
\* addConversionError) and invalidateUserCaches.  For an updated model: the
\* transaction and invalidateUserCaches, or the catch block's status update.
\* An update of a document that has been deleted fails and is logged.
\* Either way enhancedCleanup removes the model's temporary file.
JobRecord(j, rok) ==
  /\ jobs[j].pc = "converted"
  /\ LET job == jobs[j]
         cur == getDoc(job.id)
         done == job.ok /\ cur.exists
     IN /\ projects' =
             IF ~cur.exists THEN projects
             ELSE IF job.kind = "create"
               THEN [projects EXCEPT ![job.id].glb = IF job.ok THEN GlbName(job.stl) ELSE @]
             ELSE [projects EXCEPT ![job.id].glb = IF job.ok THEN GlbName(job.stl) ELSE @,
                                   ![job.id].conv = statusAfter(job.ok)]
        /\ redis' = IF job.kind = "create" \/ done
                      THEN invalidateUserCaches(redis, job.userId, job.id, rok)
                      ELSE redis
        /\ jobs' = [jobs EXCEPT ![j] =
             IF job.kind = "create" THEN [job EXCEPT !.pc = "finally"] ELSE IdleJob]
        /\ reqs' = retryTxns(reqs, job.id)
        /\ disk' = disk \ {job.path}
  /\ UNCHANGED <<users, storage, isConnected, acked>>

\* startBackgroundConversion: the finally block's enhancedCleanup and
\* updateConversionStatus
JobFinally(j) ==
  /\ jobs[j].pc = "finally"
  /\ LET job == jobs[j]
     IN /\ projects' = IF getDoc(job.id).exists
                         THEN [projects EXCEPT ![job.id].conv = statusAfter(job.ok)]
                         ELSE projects
        /\ reqs' = retryTxns(reqs, job.id)
        /\ disk' = disk \ {job.path}
  /\ jobs' = [jobs EXCEPT ![j] = IdleJob]
  /\ UNCHANGED <<users, storage, redis, isConnected, acked>>

----------------------------------------------------------------------------
(* SpecConv: u1 creates a project, uploads new models and deletes it,   *)
(* and the conversions run in the background.  u1 sends a DELETE when no *)
(* other request is in flight, and one PUT at a time until one succeeds. *)

ConvProjects == {"p1"}
ModelBody == [NoBody EXCEPT !.isPublic = TRUE, !.newModel = "b.stl"]

InitConv ==
  /\ projects = [p \in ConvProjects |-> NoDoc]
  /\ users = InitUsers
  /\ storage = {}
  /\ redis = <<>>
  /\ isConnected = TRUE
  /\ reqs = [r \in 1..MaxReqs |-> IdleReq]
  /\ acked = [p \in ConvProjects |-> NoAck]
  /\ jobs = [j \in 1..MaxJobs |-> IdleJob]
  /\ disk = {}

ReqStep(r) ==
  \/ CreateProjectWrite(r)
  \/ CreateProjectFinish(r, TRUE)
  \/ UpdCheck(r)
  \/ UpdWrite(r)
  \/ UpdFinish(r, TRUE)
  \/ DelCheck(r)
  \/ DelWrite(r)
  \/ DelFinish(r, TRUE)
  \/ CleanupRequestTempFiles(r)

JobStep(j) ==
  \/ \E ok \in BOOLEAN : JobConvert(j, ok)
  \/ \E ok \in BOOLEAN : JobUpload(j, ok)
  \/ JobRecord(j, TRUE)
  \/ JobFinally(j)

NextConv ==
  \/ \E r \in 1..MaxReqs : CreateProjectStart(r, <<Bearer, "tok_u1">>, TRUE)
  \/ \E r \in 1..MaxReqs, p \in ConvProjects :
       /\ getDoc(p).version < 1 /\ PendingPuts(p) = {}
       /\ PutProjectStart(r, <<Bearer, "tok_u1">>, p, ModelBody)
  \/ \E r \in 1..MaxReqs, p \in ConvProjects :
       /\ \A o \in DOMAIN reqs : IsFree(reqs[o])
       /\ DeleteProjectStart(r, <<Bearer, "tok_u1">>, p)
  \/ \E r \in 1..MaxReqs : ReqStep(r)
  \/ \E j \in 1..MaxJobs : JobStep(j)

\* Node runs every continuation that is ready and every timer that is due
SpecConv ==
  /\ InitConv /\ [][NextConv]_vars
  /\ \A r \in 1..MaxReqs : WF_vars(ReqStep(r))
  /\ \A j \in 1..MaxJobs : WF_vars(JobStep(j))

----------------------------------------------------------------------------
(* lib/user-service.ts: createUserProfile, generateUsername;               *)
(* routes/users.js: PUT /api/users/me, POST /api/users/username-check.     *)
(* Here a username is the sequence of its characters.                      *)

MaxNameLen == 2
MaxSuffix == 1
UsernameBaseLen == 15
MinUsernameLen == 3

NoName == <<>>
NameChars == {"A", "b", " "}
DisplayNames == SeqsUpTo(NameChars, MaxNameLen)

toLowerCase(c) == IF c = "A" THEN "a" ELSE c

\* name.replace(/[^a-z0-9]/g, '')
RECURSIVE stripNonAlnum(_)
stripNonAlnum(s) ==
  IF s = <<>> THEN <<>>
  ELSE IF Head(s) \in {"a", "b"} THEN <<Head(s)>> \o stripNonAlnum(Tail(s))
  ELSE stripNonAlnum(Tail(s))

\* `suffix` is Math.floor(Math.random() * 1000)
generateUsername(name, suffix) ==
  LET lower == [i \in 1..Len(name) |-> toLowerCase(name[i])]
      clean == stripNonAlnum(lower)
      base == SubSeq(clean, 1, Min({UsernameBaseLen, Len(clean)}))
  IN base \o <<ToString(suffix)>>

\* the user's document, or undefined
usernameOf(uid) == IF uid \in DOMAIN users THEN users[uid].username ELSE NoName

\* userRef.set({ username }, { merge: true }) / setDoc(doc(db, 'users', uid), ...)
setUsername(us, uid, username) ==
  [u \in DOMAIN us \cup {uid} |-> IF u = uid THEN [username |-> username] ELSE us[u]]

\* the sign-up of a new account: no query for the username generated
createUserProfile(uid, name, suffix) ==
  /\ uid \notin DOMAIN users
  /\ users' = setUsername(users, uid, generateUsername(name, suffix))
  /\ UNCHANGED <<disk, projects, storage, redis, isConnected, reqs, acked, jobs>>

MeStart(r, h, username) ==
  /\ Free(r)
  /\ LET auth == verifyFirebaseToken(h)
         q == [IdleReq EXCEPT !.kind = "putMe", !.user = auth.user]
     IN reqs' = [reqs EXCEPT ![r] =
          IF auth.sent = 1
            THEN Answered(q, Resp(auth.status, ErrorBody(auth.error, ""), "auth"))
            ELSE [q EXCEPT !.nexts = 1, !.pc = "me_read", !.username = username]]
  /\ UNCHANGED <<disk, projects, users, storage, redis, isConnected, acked, jobs>>

\* currentUserDoc = await userRef.get()
MeRead(r) ==
  /\ reqs[r].kind = "putMe" /\ reqs[r].pc = "me_read"
  /\ reqs' = [reqs EXCEPT ![r].oldUsername = usernameOf(reqs[r].user),
                          ![r].pc = "me_check"]
  /\ UNCHANGED <<disk, projects, users, storage, redis, isConnected, acked, jobs>>

\* !usernameQuery.empty
usernameTaken(username) == userByName(username) # NoUser

\* the username validation: the query runs when the name asked for is not
\* the one read; afterwards `username` is updateData.username
MeCheck(r) ==
  /\ reqs[r].kind = "putMe" /\ reqs[r].pc = "me_check"
  /\ LET q == reqs[r]
     IN reqs' = [reqs EXCEPT ![r] =
          IF q.username # NoName /\ q.username # q.oldUsername
            THEN IF usernameTaken(q.username)
                   THEN Answered(q, Resp(400,
                          ErrorBody("Username is already taken. Please choose another.", ""),
                          "handler"))
                   ELSE [q EXCEPT !.pc = "me_set"]
            ELSE [q EXCEPT !.pc = "me_set", !.username = NoName]]
  /\ UNCHANGED <<disk, projects, users, storage, redis, isConnected, acked, jobs>>

\* await userRef.set(updateData, { merge: true })
MeSet(r) ==
  /\ reqs[r].kind = "putMe" /\ reqs[r].pc = "me_set"
  /\ LET q == reqs[r]
     IN /\ users' = setUsername(users, q.user,
                      IF q.username # NoName THEN q.username ELSE usernameOf(q.user))
        /\ reqs' = [reqs EXCEPT ![r].pc = "me_finish"]
  /\ UNCHANGED <<disk, projects, storage, redis, isConnected, acked, jobs>>

MeFinish(r, ok) ==
  /\ reqs[r].kind = "putMe" /\ reqs[r].pc = "me_finish"
  /\ LET q == reqs[r]
         d1 == IF q.oldUsername # NoName
                 THEN RedisDel(redis, ProfileKey(q.oldUsername), ok)
                 ELSE [threw |-> FALSE, value |-> FALSE, redis |-> redis]
         d2 == IF q.username # NoName /\ q.username # q.oldUsername
                 THEN RedisDel(d1.redis, ProfileKey(q.username), ok)
                 ELSE [threw |-> FALSE, value |-> FALSE, redis |-> d1.redis]
         d3 == RedisDel(d2.redis, UserProjectsKey(q.user), ok)
     IN /\ redis' = d3.redis
        /\ reqs' = [reqs EXCEPT ![r] =
             IF d1.threw \/ d2.threw \/ d3.threw
               THEN Answered(q, Resp(500, ErrorBody(
                      "An unexpected error occurred while updating the profile.", ""),
                      "handler"))
               ELSE Answered(q, Resp(200,
                      [kind |-> "profile", username |-> usernameOf(q.user)], "handler"))]
  /\ UNCHANGED <<disk, projects, users, storage, isConnected, acked, jobs>>

UsernameCheckStart(r, h, username) ==
  /\ Free(r)
  /\ LET auth == verifyFirebaseToken(h)
         q == [IdleReq EXCEPT !.kind = "usernameCheck", !.user = auth.user]
     IN reqs' = [reqs EXCEPT ![r] =
          IF auth.sent = 1
            THEN Answered(q, Resp(auth.status, ErrorBody(auth.error, ""), "auth"))
          ELSE IF username = NoName \/ Len(username) < MinUsernameLen
            THEN Answered(q, Resp(400,
                   ErrorBody("Username must be at least 3 characters long.", ""), "handler"))
          ELSE [q EXCEPT !.nexts = 1, !.pc = "chk_query", !.username = username]]
  /\ UNCHANGED <<disk, projects, users, storage, redis, isConnected, acked, jobs>>

UsernameCheckQuery(r) ==
  /\ reqs[r].kind = "usernameCheck" /\ reqs[r].pc = "chk_query"
  /\ LET q == reqs[r]
         holder == userByName(q.username)
     IN reqs' = [reqs EXCEPT ![r] = Answered(q, Resp(200,
          IF holder = NoUser THEN [kind |-> "available", available |-> TRUE]
          ELSE IF holder = q.user
            THEN [kind |-> "available", available |-> TRUE, isCurrentUser |-> TRUE]
          ELSE [kind |-> "available", available |-> FALSE], "handler"))]
  /\ UNCHANGED <<disk, projects, users, storage, redis, isConnected, acked, jobs>>

----------------------------------------------------------------------------
(* SpecUsername: u1 and u2 change their usernames while u3 signs up *)

NewUsers == {"u3"}
PutNames == {<<"a", "b", "0">>, <<"c">>}

InitUsername ==
  /\ projects = <<>>
  /\ users = [u \in Users |-> [username |->
                IF u = "u1" THEN <<"a", "b", "0">> ELSE <<"b", "b", "1">>]]
  /\ storage = {}
  /\ redis = <<>>
  /\ isConnected = TRUE
  /\ reqs = [r \in 1..MaxReqs |-> IdleReq]
  /\ acked = <<>>
  /\ jobs = [j \in 1..MaxJobs |-> IdleJob]
  /\ disk = {}

NextUsername ==
  \/ \E r \in 1..MaxReqs, h \in ClientHeaders, n \in PutNames : MeStart(r, h, n)
  \/ \E r \in 1..MaxReqs : MeRead(r)
  \/ \E r \in 1..MaxReqs : MeCheck(r)
  \/ \E r \in 1..MaxReqs : MeSet(r)
  \/ \E r \in 1..MaxReqs : MeFinish(r, TRUE)
  \/ \E r \in 1..MaxReqs, h \in ClientHeaders, n \in PutNames : UsernameCheckStart(r, h, n)
  \/ \E r \in 1..MaxReqs : UsernameCheckQuery(r)
  \/ \E u \in NewUsers, n \in DisplayNames, s \in 0..MaxSuffix : createUserProfile(u, n, s)

SpecUsername == InitUsername /\ [][NextUsername]_vars

----------------------------------------------------------------------------
(* routes/projects.js: POST /api/projects/:id/view *)

MaxViews == 3
InitialViews == 1

increment_Set(v, n) == n

\* FieldValue.increment(n) applied to the field by the server
increment(v, n) == v + n

\* the route has no auth middleware
ViewStart(r, id) ==
  /\ Free(r)
  /\ reqs' = [reqs EXCEPT ![r] = [IdleReq EXCEPT !.kind = "view", !.id = id,
                                                !.pc = "view_update"]]
  /\ UNCHANGED <<disk, projects, users, storage, redis, isConnected, acked, jobs>>

\* projectRef.update(...): rejected when the document does not exist
ViewUpdate(r) ==
  /\ reqs[r].kind = "view" /\ reqs[r].pc = "view_update"
  /\ LET q == reqs[r]
     IN IF getDoc(q.id).exists
          THEN /\ projects' = [projects EXCEPT ![q.id].views = increment(@, 1)]
               /\ reqs' = [reqs EXCEPT ![r].pc = "view_finish"]
          ELSE /\ projects' = projects
               /\ reqs' = [reqs EXCEPT ![r] = Answered(q,
                    Resp(500, ErrorBody("Failed to update view count", ""), "handler"))]
  /\ UNCHANGED <<disk, users, storage, redis, isConnected, acked, jobs>>

ViewFinish(r, ok) ==
  /\ reqs[r].kind = "view" /\ reqs[r].pc = "view_finish"
  /\ LET q == reqs[r]
         d == RedisDel(redis, ProjectKey(q.id), ok)
     IN /\ redis' = d.redis
        /\ IF d.threw
             THEN /\ reqs' = [reqs EXCEPT ![r] = Answered(q,
                       Resp(500, ErrorBody("Failed to update view count", ""), "handler"))]
                  /\ acked' = acked
             ELSE /\ reqs' = [reqs EXCEPT ![r] = Answered(q,
                       Resp(200, [kind |-> "success"], "handler"))]
                  /\ acked' = [acked EXCEPT ![q.id].views = @ + 1]
  /\ UNCHANGED <<disk, projects, users, storage, isConnected, jobs>>

----------------------------------------------------------------------------
(* SpecView: anybody views p1 (of u1) and p2 (never created) while u1      *)
(* updates and deletes p1 and Redis commands fail or not                   *)

ViewTargets == {"p1", "p2"}

\* the view requests on `id` that have not reached the update yet
PendingViews(id) ==
  {r \in DOMAIN reqs : reqs[r].kind = "view" /\ reqs[r].pc = "view_update"
                       /\ reqs[r].id = id}

InitView ==
  /\ projects = [p \in CacheProjects |->
        [Doc("u1", "public", FALSE, 0, 1, "a.stl", "a.glb", Converted)
           EXCEPT !.views = InitialViews]]
  /\ users = InitUsers
  /\ storage = {Obj("u1", p, n) : p \in CacheProjects, n \in {"a.stl", "a.glb"}}
  /\ redis = <<>>
  /\ isConnected = TRUE
  /\ reqs = [r \in 1..MaxReqs |-> IdleReq]
  /\ acked = [p \in CacheProjects |-> NoAck]
  /\ jobs = [j \in 1..MaxJobs |-> IdleJob]
  /\ disk = {}

NextView ==
  \/ \E r \in 1..MaxReqs, p \in ViewTargets :
       /\ getDoc(p).views + Cardinality(PendingViews(p)) < InitialViews + MaxViews
       /\ ViewStart(r, p)
  \/ \E r \in 1..MaxReqs : ViewUpdate(r)
  \/ \E r \in 1..MaxReqs, ok \in BOOLEAN : ViewFinish(r, ok)
  \/ \E r \in 1..MaxReqs, h \in OwnerHeaders, p \in CacheProjects, b \in Bodies :
       PutProjectStart(r, h, p, b)
  \/ \E r \in 1..MaxReqs : UpdCheck(r)
  \/ \E r \in 1..MaxReqs : UpdWrite(r)
  \/ \E r \in 1..MaxReqs, ok \in {TRUE} : UpdFinish(r, ok)
  \/ \E r \in 1..MaxReqs, h \in OwnerHeaders, p \in CacheProjects :
       DeleteProjectStart(r, h, p)
  \/ \E r \in 1..MaxReqs : DelCheck(r)
  \/ \E r \in 1..MaxReqs : DelWrite(r)
  \/ \E r \in 1..MaxReqs, ok \in {TRUE} : DelFinish(r, ok)

SpecView == InitView /\ [][NextView]_vars

----------------------------------------------------------------------------
(* Claims *)

Done(q, kind) == q.kind = kind /\ q.pc = "done"
Slots == DOMAIN reqs

\* C1: GET /api/projects/:id answers with the data of a private project only
\* when the requester is authenticated and is the project's owner.
C1_PrivateOnlyToOwner ==
  \A r \in Slots :
    LET q == reqs[r] IN
    (Done(q, "getProject") /\ q.resp.body.kind = "project"
       /\ q.resp.body.visibility = "private")
      => (q.user # NoUser /\ q.user = q.resp.body.userId)

\* C2: GET /api/users/:username lists a project that is not public only when
\* the requester is the profile's owner.
C2_ProfilePublicOnly ==
  \A r \in Slots :
    LET q == reqs[r]
        listed == q.resp.body.pinnedProjects \o q.resp.body.otherProjects
    IN (Done(q, "getProfile") /\ q.resp.body.kind = "profile"
          /\ \E i \in 1..Len(listed) : listed[i].visibility # "public")
         => q.user = q.resp.body.id

\* C9: GET /api/projects/me with a valid token answers 200 with the list of
\* the caller's projects, newest first.
C9_MeReturnsList ==
  \A r \in Slots :
    LET q == reqs[r]
        b == q.resp.body
    IN (Done(q, "getProject") /\ q.id = "me" /\ q.user # NoUser)
         => /\ q.resp.status = 200
            /\ b.kind = "list"
            /\ {b.items[i].id : i \in 1..Len(b.items)}
                 = {p \in DOMAIN projects : projects[p].exists /\ projects[p].userId = q.user}
            /\ \A i, j \in 1..Len(b.items) :
                 i < j => b.items[i].createdAt >= b.items[j].createdAt

\* C7: once a PUT or DELETE of a project has been answered with success, a
\* GET of it that starts later answers with data at least as new (and not at
\* all after a delete), and the cache holds no older response under
\* project:{id}.
C7_MutationVisible ==
  /\ \A r \in Slots :
       LET q == reqs[r] IN
       (Done(q, "getProject") /\ q.resp.body.kind = "project")
         => (q.resp.body.version >= q.since.version /\ ~q.since.deleted)
  /\ \A p \in DOMAIN acked :
       LET c == stored(ProjectKey(p)) IN
       c.kind = "project" => (c.version >= acked[p].version /\ ~acked[p].deleted)

ValidHeader(h) ==
  /\ Len(h) >= 2 /\ h[1] = Bearer /\ h[2] \in ValidTokens
  /\ (Len(h) = 2 \/ h[3] = Bearer)
UidOf(t) == IF t = "tok_u1" THEN "u1" ELSE "u2"

\* C4: verifyFirebaseToken calls next() only for a header that starts with
\* 'Bearer ' and carries a token that verifies, with req.user.uid the
\* token's uid; in every other case it answers 401 and never calls next().
C4_VerifyOrReject ==
  \A r \in Slots :
    LET q == reqs[r] IN
    q.kind = "verify" =>
      IF ValidHeader(q.header)
        THEN q.nexts = 1 /\ q.sent = 0 /\ q.user = UidOf(q.header[2])
        ELSE q.nexts = 0 /\ q.sent = 1 /\ q.resp.status = 401 /\ q.user = NoUser

C4_Witness ==
  \E r \in Slots : reqs[r].kind = "verify" /\ reqs[r].nexts = 1 /\ reqs[r].user = "u2"
                    /\ Len(reqs[r].header) = 2

\* C5: optionalVerifyFirebaseToken calls next() exactly once and never
\* answers itself; req.user is set exactly when a Bearer token was supplied
\* and verified.
C5_OptionalAlwaysNext ==
  \A r \in Slots :
    LET q == reqs[r] IN
    q.kind = "optional" =>
      /\ q.nexts = 1 /\ q.sent = 0 /\ q.resp = NoResp
      /\ (q.user # NoUser <=> ValidHeader(q.header))
      /\ (ValidHeader(q.header) => q.user = UidOf(q.header[2]))

C5_Witness ==
  \E r \in Slots : reqs[r].kind = "optional" /\ reqs[r].nexts = 1
                    /\ reqs[r].header = <<Bearer, "expired">> /\ reqs[r].user = NoUser

\* C6: with Redis disconnected or failing, the cache middleware calls next()
\* exactly once and sends nothing, the handler answers from the database,
\* every request gets exactly one response, and none fails on a Redis error.
C6_RedisFailureHarmless ==
  \A r \in Slots :
    LET q == reqs[r]
        cached == q.kind \in {"getProject", "getProfile"} /\ q.resp.src # "auth"
    IN /\ cached => q.nexts + q.mwSent = 1
       /\ (cached /\ q.redisDown) =>
            (q.nexts = 1 /\ q.mwSent = 0 /\ (q.pc = "done" => q.resp.src = "handler"))
       /\ q.pc = "done" => q.sent = 1
       /\ (q.pc = "done" /\ q.resp.body.kind = "error") =>
            (q.resp.body.error # RedisError /\ q.resp.body.message # RedisError)

C6_Witness ==
  \E r \in Slots :
    /\ Done(reqs[r], "getProject") /\ reqs[r].redisDown
    /\ reqs[r].resp.status = 200 /\ reqs[r].resp.body.kind = "project"
    /\ reqs[r].resp.src = "handler"

PinnedNow(uid) ==
  {p \in DOMAIN projects : projects[p].exists /\ projects[p].userId = uid
                            /\ projects[p].isPinned = TRUE}

\* the toggle request that reads in this step, finding an unpinned project
\* of the caller while the caller has four pinned projects already
FifthPin(r) ==
  /\ reqs[r].kind = "togglePin" /\ reqs[r].pc = "pin_read" /\ reqs'[r] # reqs[r]
  /\ reqs'[r].pc # "pin_read"
  /\ projects[reqs[r].id].exists /\ projects[reqs[r].id].userId = reqs[r].user
  /\ ~projects[reqs[r].id].isPinned
  /\ Cardinality(PinnedNow(reqs[r].user)) >= 4

\* C3: no user ever has more than 4 pinned projects, whatever the
\* interleaving of the toggle-pin requests; a toggle that would pin a fifth
\* fails with 'You can only pin a maximum of 4 projects.' and changes nothing.
C3_AtMostFourPinned ==
  /\ [](\A u \in Users : Cardinality(PinnedNow(u)) <= 4)
  /\ [][\A r \in Slots : FifthPin(r) =>
          /\ reqs'[r].pc = "done" /\ reqs'[r].resp.status = 500
          /\ reqs'[r].resp.body.error = "You can only pin a maximum of 4 projects."
          /\ projects' = projects]_vars

C3_Witness ==
  /\ Cardinality(PinnedNow("u1")) = 4
  /\ \E r \in Slots :
       /\ Done(reqs[r], "togglePin") /\ reqs[r].resp.status = 500
       /\ reqs[r].resp.body.error = "You can only pin a maximum of 4 projects."

CheckPcs == {"upd_check", "del_check", "pin_read"}
WritePcs == {"upd_write", "del_write", "pin_commit"}

\* the request takes its step that reads the project, and finds that the
\* project does not exist or belongs to somebody else
RefusedCheck(r) ==
  /\ reqs[r].pc \in CheckPcs /\ reqs'[r] # reqs[r]
  /\ ~(getDoc(reqs[r].id).exists /\ getDoc(reqs[r].id).userId = reqs[r].user)

NewModelStep(p) ==
  \/ ~projects[p].exists /\ projects'[p].exists
  \/ \E r \in Slots :
       /\ reqs[r].pc = "upd_write" /\ reqs[r].id = p /\ reqs[r].body.newModel # ""
       /\ reqs'[r].pc = "upd_finish"

OnDisk(n) == {f \in disk : f[2] = n}

\* the request or the conversion that still has the file to remove
HasCleaner(f) ==
  \/ \E r \in Slots : f \in reqs[r].temp
  \/ \E j \in DOMAIN jobs :
       /\ jobs[j].pc # "idle"
       /\ (f = jobs[j].path \/ (f = GlbTemp(jobs[j].path) /\ jobs[j].pc = "written"))

C12_UsernamesUnique ==
  \A u, v \in DOMAIN users :
    (u # v /\ users[u].username # NoName) => users[u].username # users[v].username

\* the part of C12 about one request: a PUT /me whose validation finds the
\* username held by another user is answered 400 and stores nothing
C12_TakenRefused ==
  [][\A r \in Slots :
       (/\ reqs[r].kind = "putMe" /\ reqs[r].pc = "me_check"
        /\ reqs'[r] # reqs[r]
        /\ reqs[r].username # NoName /\ reqs[r].username # reqs[r].oldUsername
        /\ \E u \in DOMAIN users \ {reqs[r].user} : users[u].username = reqs[r].username)
       => (/\ Done(reqs'[r], "putMe") /\ reqs'[r].resp.status = 400
           /\ users' = users)]_vars

\* two users hold the same username after both were answered 200
C12_TwoHolders ==
  /\ users["u1"].username = <<"c">> /\ users["u2"].username = <<"c">>
  /\ \A r \in Slots : Done(reqs[r], "putMe") /\ reqs[r].resp.status = 200

\* the view requests on p that have raised the counter and not answered yet
Counted(p) ==
  {r \in Slots : reqs[r].kind = "view" /\ reqs[r].pc = "view_finish" /\ reqs[r].id = p}

ViewsAccounted ==
  \A p \in DOMAIN projects :
    projects[p].exists =>
      projects[p].views = InitialViews + acked[p].views + Cardinality(Counted(p))

ViewStep ==
  /\ \A p \in DOMAIN projects :
       (projects[p].exists /\ p \in DOMAIN projects' /\ projects'[p].exists)
         => projects'[p].views >= projects[p].views
  /\ \A r \in Slots :
       (reqs[r].kind = "view" /\ reqs[r].pc = "view_update" /\ reqs'[r] # reqs[r])
         => IF getDoc(reqs[r].id).exists
              THEN /\ projects'[reqs[r].id].views = projects[reqs[r].id].views + 1
                   /\ reqs'[r].pc = "view_finish"
              ELSE /\ Done(reqs'[r], "view") /\ reqs'[r].resp.status = 500
                   /\ projects' = projects

\* C13: every POST /api/projects/:id/view answered 200 has raised the
\* project's stats.views by exactly 1: in every interleaving the counter of
\* an existing project is its initial value plus the number of requests
\* answered 200 (plus those that have updated and not answered yet), it
\* never decreases, and a view of a project that does not exist is answered
\* 500 and creates no document.
C13_ViewsCountRequests == []ViewsAccounted /\ [][ViewStep]_vars

\* every view of p1 the bound allows was answered 200 and counted, and a
\* view of p2 was refused
C13_Witness ==
  /\ projects["p1"].exists /\ projects["p1"].views = InitialViews + MaxViews
  /\ acked["p1"].views = MaxViews
  /\ "p2" \notin DOMAIN projects
  /\ Done(reqs[1], "view") /\ reqs[1].id = "p1" /\ reqs[1].resp.status = 200
  /\ Done(reqs[2], "view") /\ reqs[2].id = "p2" /\ reqs[2].resp.status = 500

=============================================================================
